---- MODULE Spec2Model ----
(***************************************************************************)
(* The motion sequencer of the ESP32 turntable firmware                    *)
(* (arduino/esp32_turntable/esp32_turntable.ino): handleRotate() parses a  *)
(* request, rotateStepper() plans, clamps and executes the repetitions and *)
(* builds the report kept in lastStatus.                                   *)
(*                                                                         *)
(* Numbers.  The firmware's floats are modelled as exact rationals         *)
(* <<numerator, denominator>> in lowest terms; String(x, d) is modelled as *)
(* rounding to d decimals, kept as an integer count of 10^-d.              *)
(*                                                                         *)
(* Time.  millis() is only ever read as a difference against the start of  *)
(* the running repetition (lines 94, 97); the variable elapsed is that     *)
(* difference as the loop last read it.  The total sequence time (lines    *)
(* 75, 106, 113, 128) is not modelled.                                     *)
(*                                                                         *)
(* AccelStepper.  run() is the library's control tick: it takes at most    *)
(* one step towards the target, and only when a step is due.  Whether a    *)
(* step is due is a nondeterministic choice here.                          *)
(***************************************************************************)
EXTENDS Integers, Sequences, FiniteSets, TLC

VARIABLES
    pc,               \* where the single control thread is
    pending,          \* requests received by the network stack, not yet handled
    args,             \* the arguments of the request being handled (server.arg)
    enablePin,        \* level of ENABLE_PIN: "LOW" enables the driver
    currentPos,       \* stepper.currentPosition()
    targetPos,        \* stepper.targetPosition()
    maxSpeed,         \* stepper's configured maximum speed, steps/s
    acceleration,     \* stepper's configured acceleration, steps/s^2
    lastStatus,       \* the report buffer: <<>> is the empty String
    response,         \* what server.send() sent for the request being finished
    \* handleRotate / rotateStepper parameters and locals
    angle, durationMs, reverse, repetitions, repDelayMs, accelRpm, decelRpm,
    steps, requiredSpeed, requiredSpeedRpm, warnings,
    rep, targetSteps, totalStepsMoved, elapsed,
    \* history of the request in progress (not program state)
    hist

params == <<angle, durationMs, reverse, repetitions, repDelayMs, accelRpm,
            decelRpm, steps, requiredSpeed, requiredSpeedRpm, warnings>>
locals == <<rep, targetSteps, totalStepsMoved, elapsed>>
stepperVars == <<currentPos, targetPos, maxSpeed, acceleration>>
vars == <<pc, pending, args, enablePin, stepperVars, lastStatus, response, params,
          locals, hist>>

-----------------------------------------------------------------------------
(* Bounds of the model *)

MaxDt == 1          \* millis() advances by 0..MaxDt between two reads in the loop
MaxPending == 1     \* requests the network stack holds while the device is busy
MaxAngle == 12      \* largest angle asked of the planning specification

-----------------------------------------------------------------------------
(* Firmware constants *)

microsteps == 16
stepsPerRev == 200 * microsteps
gearRatio == 4
MAX_SPEED_RPM == 60
MAX_ACCELERATION_RPM_S == 30
DEFAULT_ACCELERATION_RPM_S == 10
DEFAULT_DECELERATION_RPM_S == 10

-----------------------------------------------------------------------------
(* Arithmetic *)

Abs(x) == IF x < 0 THEN -x ELSE x

RECURSIVE Gcd(_, _)
Gcd(a, b) == IF b = 0 THEN a ELSE Gcd(b, a % b)

\* The rational n/d (d # 0) in lowest terms with a positive denominator.
Rat(n, d) ==
    LET g == Gcd(Abs(n), Abs(d))
        s == IF d < 0 THEN -1 ELSE 1
    IN  <<(s * n) \div g, (s * d) \div g>>

RInt(n) == <<n, 1>>
RMul(x, y) == Rat(x[1] * y[1], x[2] * y[2])
RDiv(x, y) == Rat(x[1] * y[2], x[2] * y[1])
RGt(x, y) == x[1] * y[2] > y[1] * x[2]
RLe(x, y) == ~RGt(x, y)
RMin(x, y) == IF RGt(x, y) THEN y ELSE x

\* C's conversion of a quotient to int: truncation towards zero.
RoundDiv(a, b) == IF a >= 0 THEN (2 * a + b) \div (2 * b) ELSE -((2 * (-a) + b) \div (2 * b))
TruncDiv(a, b) == IF a >= 0 THEN a \div b ELSE -((-a) \div b)

\* String(x, d) for d decimals: x rounded to the nearest 10^-d, as a count of
\* 10^-d (scale = 10^d).
Decimals(x, scale) ==
    LET n == Abs(x[1]) * scale
        q == (2 * n + x[2]) \div (2 * x[2])
    IN  IF x[1] < 0 THEN -q ELSE q

-----------------------------------------------------------------------------
(* Helper functions of the firmware *)

rpmToStepsPerSec(rpm) == RDiv(RMul(rpm, RInt(stepsPerRev * gearRatio)), RInt(60))

stepsPerSecToMotorRpm(stepsPerSec) ==
    RDiv(RMul(stepsPerSec, RInt(60)), RInt(stepsPerRev))
stepsPerSecToRpm(stepsPerSec) ==
    RDiv(RMul(stepsPerSec, RInt(60)), RInt(stepsPerRev * gearRatio))

\* int steps = (angle * stepsPerRev * gearRatio) / 360;
PlannedSteps(a) == TruncDiv(a * stepsPerRev * gearRatio, 360)

\* if (steps == 0) return;
NeverNoOp(s) == FALSE
IsNoOp(s) == s = 0

\* if (reverse) steps = -steps;
SignedSteps(s, rev) == IF rev THEN -s ELSE s

\* abs((float)steps) / (durationMs / 1000.0)
RequiredSpeed(s, dur) == RDiv(RInt(Abs(s)), Rat(dur, 1000))


-----------------------------------------------------------------------------
(* Safety checks of rotateStepper (lines 49-65) *)

\* the comparison of each of the three "exceeds maximum" tests
ExceedsOrEquals(x, limit) == ~RGt(limit, x)
Exceeds(x, limit) == RGt(x, limit)

\* one "WARNING: ... (requested) exceeds maximum (limit)" sentence; both
\* numbers are printed with one decimal
Warning(quantity, requested, limit) ==
    [quantity |-> quantity,
     requested |-> Decimals(requested, 10),
     limit |-> Decimals(limit, 10)]

\* speed in steps/s, accel and decel in RPM/s; the values after the three
\* checks and the warnings text in the order it is appended
SafetyClamp(speed, accel, decel) ==
    LET speedRpm == stepsPerSecToRpm(speed)
        maxS == RInt(MAX_SPEED_RPM)
        maxA == RInt(MAX_ACCELERATION_RPM_S)
        sHit == Exceeds(speedRpm, maxS)
        aHit == Exceeds(accel, maxA)
        dHit == Exceeds(decel, maxA)
    IN  [requiredSpeed |-> IF sHit THEN rpmToStepsPerSec(maxS) ELSE speed,
         requiredSpeedRpm |-> IF sHit THEN maxS ELSE speedRpm,
         accelRpm |-> IF aHit THEN maxA ELSE accel,
         decelRpm |-> IF dHit THEN maxA ELSE decel,
         warnings |->
             (IF sHit THEN <<Warning("speed", speedRpm, maxS)>> ELSE <<>>)
          \o (IF aHit THEN <<Warning("acceleration", accel, maxA)>> ELSE <<>>)
          \o (IF dHit THEN <<Warning("deceleration", decel, maxA)>> ELSE <<>>)]

-----------------------------------------------------------------------------
(* Requests: the arguments of GET /rotate *)

\* An argument: has = server.hasArg(name), len = server.arg(name).length(),
\* val = what toInt() / toFloat() make of the text, text = the text where the
\* code compares it (direction).
Absent == [has |-> FALSE, len |-> 0, val |-> 0, text |-> ""]
Num(v) == [has |-> TRUE, len |-> 1, val |-> v, text |-> ""]
Empty == [has |-> TRUE, len |-> 0, val |-> 0, text |-> ""]
Word(w) == [has |-> TRUE, len |-> 1, val |-> 0, text |-> w]

\* The requests of the device's lifetime (Spec): every way of leaving out a
\* required argument, the zero angle, and one degree in either direction.
CoreRequests ==
    [angle : {Absent, Num(0), Num(1)},
     time : {Absent, Num(1)},
     direction : {Absent, Word("forward"), Word("reverse")},
     repetitions : {Absent}, repDelay : {Absent},
     acceleration : {Absent}, deceleration : {Absent}]

\* Single-repetition requests over every combination of speed, acceleration
\* and deceleration below, at and above the limits, and of the optional
\* arguments left out, empty or not positive.
SingleRequests ==
    [angle : {Absent, Num(0), Num(1)},
     time : {Absent, Num(1), Num(3)},
     direction : {Absent, Word("forward"), Word("reverse")},
     repetitions : {Absent, Num(0)},
     repDelay : {Absent, Num(-1), Num(1)},
     acceleration : {Absent, Empty, Num(0), Num(30), Num(40)},
     deceleration : {Absent, Num(20), Num(40)}]

\* Requests of two and three repetitions, with and without a delay.
RepeatedRequests ==
    [angle : {Num(1)},
     time : {Num(1)},
     direction : {Word("reverse")},
     repetitions : {Num(2), Num(3)},
     repDelay : {Absent, Num(1)},
     acceleration : {Absent}, deceleration : {Absent}]

Requests == SingleRequests \cup RepeatedRequests

\* the requests of the specification with fairness: those of CoreRequests and
\* the requests with two repetitions
LiveRequests == CoreRequests \cup {r \in RepeatedRequests : r.repetitions.val = 2}

\* the requests of the planning specification: every angle up to MaxAngle,
\* durations that need the speed clamp and durations that do not, and every
\* way of giving or withholding an acceleration
RateArgs == {Absent, Empty, Num(-5), Num(0), Num(20), Num(30), Num(40)}
PlanRequests ==
    [angle : {Absent} \cup {Num(a) : a \in 0..MaxAngle},
     time : {Absent, Num(1), Num(1000)},
     direction : {Absent, Word("forward"), Word("reverse")},
     repetitions : {Absent}, repDelay : {Absent},
     acceleration : RateArgs, deceleration : RateArgs]

\* server.hasArg("angle") && server.hasArg("time") && server.hasArg("direction")
HasAngleAndTime(req) == req.angle.has /\ req.time.has
HasRequiredArgs(req) == req.angle.has /\ req.time.has /\ req.direction.has

\* the argument's value, or the default when it was not sent (lines 398-399)
IntArgOr(arg, default) == IF arg.has THEN arg.val ELSE default

\* the argument's value, or the default when not sent or empty (lines 402-405)
FloatArgOr(arg, default) ==
    IF arg.has /\ arg.len > 0 THEN RInt(arg.val) ELSE RInt(default)

\* "Validate inputs" (lines 408-411)
Unvalidated(x, low) == x
AtLeast(x, low) == IF x < low THEN low ELSE x
NonNegativeOr(x, default) == IF RGt(RInt(0), x) THEN RInt(default) ELSE x
PositiveOr(x, default) == IF RLe(x, RInt(0)) THEN RInt(default) ELSE x

\* the locals of handleRotate when it calls rotateStepper
Parsed(req) ==
    [angle |-> req.angle.val,
     time |-> req.time.val,
     reverse |-> (req.direction.text = "reverse"),
     repetitions |-> AtLeast(IntArgOr(req.repetitions, 1), 1),
     repDelay |-> AtLeast(IntArgOr(req.repDelay, 0), 0),
     accelRpm |-> PositiveOr(FloatArgOr(req.acceleration, DEFAULT_ACCELERATION_RPM_S),
                             DEFAULT_ACCELERATION_RPM_S),
     decelRpm |-> PositiveOr(FloatArgOr(req.deceleration, DEFAULT_DECELERATION_RPM_S),
                             DEFAULT_DECELERATION_RPM_S)]


-----------------------------------------------------------------------------
(* Pieces of rotateStepper's repetition loop (lines 79-107) *)

ENABLE_DRIVER == "LOW"       \* digitalWrite(ENABLE_PIN, LOW)

DriverLeftEnabled == "LOW"
DISABLE_DRIVER == "HIGH"     \* digitalWrite(ENABLE_PIN, HIGH)

\* stepper.setCurrentPosition(0): the position handleRotate starts from
KeepPosition(pos) == pos
ResetPosition(pos) == 0

\* long targetSteps = stepper.currentPosition() + steps;
AbsoluteTarget(pos, s) == s
TargetFor(pos, s) == pos + s

\* lines 68-73: both rates are converted to steps/s^2, and
\* stepper.setAcceleration() is given the acceleration
SlowerOfBothRates(accel, decel) == rpmToStepsPerSec(RMin(accel, decel))
DriverAcceleration(accel, decel) == rpmToStepsPerSec(accel)

\* for (...; rep <= repetitions; ...)
LoopStopsOneShort(r, n) == r < n
LoopContinues(r, n) == r <= n

\* stepper.distanceToGo()
distanceToGo == targetPos - currentPos

\* stepper.run(): at most one step towards the target, when one is due
StepTowards(pos, target, due) ==
    IF ~due \/ target = pos THEN pos
    ELSE IF target > pos THEN pos + 1 ELSE pos - 1

\* if (millis() - start > durationMs * 2) break;
CutoffFiresAtLimit(e, dur) == e >= dur * 2
CutoffFires(e, dur) == e > dur * 2

\* abs(stepper.currentPosition() - (targetSteps - steps))
RepDistanceSigned(pos, target, s) == pos - (target - s)
RepDistanceFromOrigin(pos, target, s) == Abs(pos)
RepDistancePlanned(pos, target, s) == Abs(s)
RepDistance(pos, target, s) == Abs(pos - (target - s))

\* if (rep < repetitions && repDelayMs > 0) delay(repDelayMs);
DelayAfterEveryRep(r, n, d) == r <= n /\ d > 0
ShouldDelay(r, n, d) == r < n /\ d > 0

\* float expectedTotalAngle = (float)angle * repetitions;
ExpectedTotalAngle(a, n) == RInt(a * n)

\* float actualTotalAngle = (float)totalStepsMoved * 360.0 / (stepsPerRev * gearRatio);
ActualAngleOfMotorTurns(total) == Rat(total * 360, stepsPerRev)
ActualTotalAngle(total) == Rat(total * 360, stepsPerRev * gearRatio)

\* the status text of lines 110-135, field by field
Report ==
    [warnings |-> warnings,
     repetitions |-> repetitions,
     angle |-> angle,
     direction |-> IF reverse THEN "Reverse" ELSE "Forward",
     expectedTotalAngle |-> Decimals(ExpectedTotalAngle(angle, repetitions), 10),
     durationMs |-> durationMs,
     repDelayMs |-> repDelayMs,
     targetSpeed |-> Decimals(requiredSpeedRpm, 100),
     acceleration |-> Decimals(accelRpm, 10),
     deceleration |-> Decimals(decelRpm, 10),
     stepsMoved |-> totalStepsMoved,
     actualAngle |-> Decimals(ActualTotalAngle(totalStepsMoved), 10)]

-----------------------------------------------------------------------------
(* States *)

NoArgs ==
    [angle |-> Absent, time |-> Absent, direction |-> Absent,
     repetitions |-> Absent, repDelay |-> Absent,
     acceleration |-> Absent, deceleration |-> Absent]
NoResponse == [code |-> 0, text |-> "", report |-> <<>>]

\* What the request in progress has done so far: writes of LOW and of HIGH to
\* the enable pin, moveTo() calls, delay() calls (after which repetition, for
\* how long), whether run() was called, the position the request found, the
\* position the running repetition started from, the distance covered by the
\* repetitions that have ended and how many of them ended short of their
\* target.
NoHist ==
    [enables |-> 0, disables |-> 0, moves |-> 0, delays |-> <<>>, ticked |-> FALSE,
     posAtAccept |-> 0, repStartPos |-> 0, traveled |-> 0, aborted |-> 0]
Zero == RInt(0)

\* the stack frame of a handler that is not running
NoFrame ==
    /\ angle' = 0 /\ durationMs' = 0 /\ reverse' = FALSE /\ repetitions' = 0
    /\ repDelayMs' = 0 /\ accelRpm' = Zero /\ decelRpm' = Zero /\ steps' = 0
    /\ requiredSpeed' = Zero /\ requiredSpeedRpm' = Zero /\ warnings' = <<>>
    /\ rep' = 0 /\ targetSteps' = 0 /\ totalStepsMoved' = 0 /\ elapsed' = 0

\* setup(): driver disabled, stepper at its initial settings, server started
Init ==
    /\ pc = "idle"
    /\ pending = 0
    /\ args = NoArgs
    /\ enablePin = "HIGH"
    /\ currentPos = 0 /\ targetPos = 0
    /\ maxSpeed = rpmToStepsPerSec(RInt(MAX_SPEED_RPM))
    /\ acceleration = rpmToStepsPerSec(RInt(DEFAULT_ACCELERATION_RPM_S))
    /\ lastStatus = <<>>
    /\ response = NoResponse
    /\ angle = 0 /\ durationMs = 0 /\ reverse = FALSE /\ repetitions = 0
    /\ repDelayMs = 0 /\ accelRpm = Zero /\ decelRpm = Zero /\ steps = 0
    /\ requiredSpeed = Zero /\ requiredSpeedRpm = Zero /\ warnings = <<>>
    /\ rep = 0 /\ targetSteps = 0 /\ totalStepsMoved = 0 /\ elapsed = 0
    /\ hist = NoHist

-----------------------------------------------------------------------------
(* Actions *)

\* A client sends GET /rotate; the network stack holds it until loop() calls
\* server.handleClient().
Arrive ==
    /\ pending < MaxPending
    /\ pending' = pending + 1
    /\ UNCHANGED <<pc, args, enablePin, stepperVars, lastStatus, response,
                   params, locals, hist>>

\* loop() is at server.handleClient() and a request is waiting
AcceptingWhileBusy == pending > 0
Accepting == pc = "idle" /\ pending > 0

\* loop() -> handleClient() -> handleRotate(), required argument missing:
\* server.send(400, "text/plain", "Missing parameters.")
RotateMissing(req) ==
    /\ ~HasRequiredArgs(req)
    /\ pending' = pending - 1
    /\ args' = req
    /\ response' = [code |-> 400, text |-> "Missing parameters.", report |-> <<>>]
    /\ hist' = [NoHist EXCEPT !.posAtAccept = currentPos]
    /\ pc' = "sent"
    /\ UNCHANGED <<enablePin, stepperVars, lastStatus, params, locals>>

\* handleRotate() with steps == 0: the position is reset, rotateStepper()
\* returns at once and lastStatus is sent as it stands.
RotateNoOp(req) ==
    /\ HasRequiredArgs(req)
    /\ LET a == Parsed(req) IN
        /\ IsNoOp(PlannedSteps(a.angle))
        /\ pending' = pending - 1
        /\ args' = req
        /\ currentPos' = ResetPosition(currentPos)
        /\ targetPos' = ResetPosition(currentPos)
        /\ angle' = a.angle /\ durationMs' = a.time /\ reverse' = a.reverse
        /\ repetitions' = a.repetitions /\ repDelayMs' = a.repDelay
        /\ accelRpm' = a.accelRpm /\ decelRpm' = a.decelRpm
        /\ steps' = PlannedSteps(a.angle)
        /\ response' = [code |-> 200, text |-> "", report |-> lastStatus]
        /\ hist' = [NoHist EXCEPT !.posAtAccept = currentPos]
        /\ pc' = "sent"
        /\ UNCHANGED <<enablePin, maxSpeed, acceleration, lastStatus,
                       requiredSpeed, requiredSpeedRpm, warnings, locals>>

\* handleRotate() with steps != 0, up to the head of the repetition loop:
\* reset the position, enable the driver, clamp, configure the stepper.
RotateBegin(req) ==
    /\ HasRequiredArgs(req)
    /\ LET a == Parsed(req)
           s == PlannedSteps(a.angle)
           c == SafetyClamp(RequiredSpeed(SignedSteps(s, a.reverse), a.time),
                            a.accelRpm, a.decelRpm)
       IN
        /\ ~IsNoOp(s)
        /\ pending' = pending - 1
        /\ args' = req
        /\ currentPos' = ResetPosition(currentPos)
        /\ targetPos' = ResetPosition(currentPos)
        /\ enablePin' = ENABLE_DRIVER
        /\ angle' = a.angle /\ durationMs' = a.time /\ reverse' = a.reverse
        /\ repetitions' = a.repetitions /\ repDelayMs' = a.repDelay
        /\ steps' = SignedSteps(s, a.reverse)
        /\ requiredSpeed' = c.requiredSpeed
        /\ requiredSpeedRpm' = c.requiredSpeedRpm
        /\ accelRpm' = c.accelRpm /\ decelRpm' = c.decelRpm
        /\ warnings' = c.warnings
        /\ maxSpeed' = c.requiredSpeed
        /\ acceleration' = DriverAcceleration(c.accelRpm, c.decelRpm)
        /\ totalStepsMoved' = 0
        /\ rep' = 1
        /\ hist' = [NoHist EXCEPT !.posAtAccept = currentPos, !.enables = 1]
        /\ pc' = "rep"
        /\ UNCHANGED <<lastStatus, response, targetSteps, elapsed>>

\* loop body, lines 80-84: start = millis(); moveTo(currentPosition() + steps)
StartRep ==
    /\ pc = "rep" /\ LoopContinues(rep, repetitions)
    /\ elapsed' = 0
    /\ targetSteps' = TargetFor(currentPos, steps)
    /\ targetPos' = TargetFor(currentPos, steps)
    /\ hist' = [hist EXCEPT !.moves = @ + 1, !.repStartPos = currentPos]
    /\ pc' = "moving"
    /\ UNCHANGED <<pending, args, enablePin, currentPos, maxSpeed, acceleration,
                   lastStatus, response, params, rep, totalStepsMoved>>

\* one pass of the while loop, lines 90-95: run(), then the cutoff test
Tick ==
    /\ pc = "moving" /\ distanceToGo # 0
    /\ \E due \in BOOLEAN, dt \in 0..MaxDt :
        /\ currentPos' = StepTowards(currentPos, targetPos, due)
        /\ elapsed' = elapsed + dt
        /\ pc' = IF CutoffFires(elapsed + dt, durationMs) THEN "repEnd" ELSE "moving"
    /\ hist' = [hist EXCEPT !.ticked = TRUE]
    /\ UNCHANGED <<pending, args, enablePin, targetPos, maxSpeed, acceleration,
                   lastStatus, response, params, rep, targetSteps, totalStepsMoved>>

\* the while condition fails: distanceToGo() == 0
Arrived ==
    /\ pc = "moving" /\ distanceToGo = 0
    /\ pc' = "repEnd"
    /\ UNCHANGED <<pending, args, enablePin, stepperVars, lastStatus, response,
                   params, locals, hist>>

\* lines 97-104 and the loop's rep++: account the distance, then either
\* stand at delay() or go to the loop test
EndRep ==
    /\ pc = "repEnd"
    /\ totalStepsMoved' = totalStepsMoved + RepDistance(currentPos, targetSteps, steps)
    /\ hist' = [hist EXCEPT !.traveled = @ + Abs(currentPos - hist.repStartPos),
                            !.aborted = @ + (IF distanceToGo # 0 THEN 1 ELSE 0)]
    /\ IF ShouldDelay(rep, repetitions, repDelayMs)
         THEN pc' = "delay" /\ rep' = rep
         ELSE pc' = "rep" /\ rep' = rep + 1
    /\ UNCHANGED <<pending, args, enablePin, stepperVars, lastStatus, response,
                   params, targetSteps, elapsed>>

\* delay(repDelayMs) returns; rep++
Delay ==
    /\ pc = "delay"
    /\ hist' = [hist EXCEPT !.delays = Append(@, [after |-> rep, ms |-> repDelayMs])]
    /\ rep' = rep + 1
    /\ pc' = "rep"
    /\ UNCHANGED <<pending, args, enablePin, stepperVars, lastStatus, response,
                   params, targetSteps, totalStepsMoved, elapsed>>

\* lines 106-136 and handleRotate's send: disable the driver, write the
\* report, server.send(200, "text/html", lastStatus)
Finish ==
    /\ pc = "rep" /\ ~LoopContinues(rep, repetitions)
    /\ enablePin' = DISABLE_DRIVER
    /\ lastStatus' = <<Report>>
    /\ response' = [code |-> 200, text |-> "", report |-> <<Report>>]
    /\ hist' = [hist EXCEPT !.disables = @ + 1]
    /\ pc' = "sent"
    /\ UNCHANGED <<pending, args, stepperVars, params, locals>>

\* handleRotate() returns to loop()
Return ==
    /\ pc = "sent"
    /\ pc' = "idle"
    /\ args' = NoArgs
    /\ response' = NoResponse
    /\ hist' = NoHist
    /\ NoFrame
    /\ UNCHANGED <<pending, enablePin, stepperVars, lastStatus>>

\* The device from setup() on, serving CoreRequests for ever.  No request of
\* CoreRequests has a second repetition, so Delay cannot occur.
Next ==
    \/ Arrive
    \/ Accepting /\ \E req \in CoreRequests : RotateMissing(req)
    \/ Accepting /\ \E req \in CoreRequests : RotateNoOp(req)
    \/ Accepting /\ \E req \in CoreRequests : RotateBegin(req)
    \/ StartRep
    \/ Tick
    \/ Arrived
    \/ EndRep
    \/ Finish
    \/ Return

Spec == Init /\ [][Next]_vars

\* The device from setup() up to the end of the first request that writes a
\* report, serving Requests.
NoReportYet == lastStatus = <<>>

NextFirst ==
    \/ Arrive
    \/ Accepting /\ NoReportYet /\ \E req \in Requests : RotateMissing(req)
    \/ Accepting /\ NoReportYet /\ \E req \in Requests : RotateNoOp(req)
    \/ Accepting /\ NoReportYet /\ \E req \in Requests : RotateBegin(req)
    \/ StartRep
    \/ Tick
    \/ Arrived
    \/ EndRep
    \/ Delay
    \/ Finish
    \/ Return

SpecFirst == Init /\ [][NextFirst]_vars

\* The planning half of the first request: handleRotate() and rotateStepper()
\* down to the head of the repetition loop (lines 390-76), serving PlanRequests.
NextPlan ==
    \/ Arrive
    \/ Accepting /\ \E req \in PlanRequests : RotateMissing(req)
    \/ Accepting /\ \E req \in PlanRequests : RotateNoOp(req)
    \/ Accepting /\ \E req \in PlanRequests : RotateBegin(req)

SpecPlan == Init /\ [][NextPlan]_vars

\* The first request that writes a report, serving LiveRequests, with the
\* scheduling the firmware has: the handler is straight-line code on one thread, so the statement it stands at is executed, delay()
\* returns, and millis() read in the while loop grows as long as the loop runs.
ClockAdvances == Tick /\ elapsed' > elapsed

HandlerRuns ==
    \/ StartRep
    \/ ClockAdvances
    \/ Arrived
    \/ EndRep
    \/ Delay
    \/ Finish
    \/ Return

Fairness == WF_vars(HandlerRuns)

NextLive ==
    \/ Arrive
    \/ Accepting /\ NoReportYet /\ \E req \in LiveRequests : RotateMissing(req)
    \/ Accepting /\ NoReportYet /\ \E req \in LiveRequests : RotateNoOp(req)
    \/ Accepting /\ NoReportYet /\ \E req \in LiveRequests : RotateBegin(req)
    \/ StartRep
    \/ Tick
    \/ Arrived
    \/ EndRep
    \/ Delay
    \/ Finish
    \/ Return

SpecLive == Init /\ [][NextLive]_vars /\ Fairness


-----------------------------------------------------------------------------
(* Vocabulary of the properties *)

\* the request being handled carries angle, time and direction
AllRequiredPresent(a) == a.angle.has /\ a.time.has /\ a.direction.has

\* the handler is inside rotateStepper's repetition loop
InLoop == pc \in {"rep", "moving", "repEnd", "delay"}

\* the request being handled has planned steps other than zero
ProducesMotion == pc # "idle" /\ AllRequiredPresent(args) /\ steps # 0

\* the response about to leave is the report of a request that moved
ReportSent == pc = "sent" /\ ProducesMotion

-----------------------------------------------------------------------------
(* C1 *)

\* C1: a request with angle = 0 (angle, time and direction present) issues
\* no move command and no control tick, never asserts the enable line, and
\* the report returned for it shows total steps moved = 0.  (A response with
\* an empty body is not counted against the last part.)
C1_ZeroAngleIsNoOp ==
    (pc = "sent" /\ AllRequiredPresent(args) /\ args.angle.val = 0) =>
        /\ hist.moves = 0 /\ ~hist.ticked
        /\ hist.enables = 0 /\ enablePin = "HIGH"
        /\ (response.report = <<>> \/ response.report[1].stepsMoved = 0)

-----------------------------------------------------------------------------
(* C2 *)

\* C2: a segment ends only with the remaining distance at zero or with the
\* elapsed time of the repetition strictly above 2 x durationMs; while the
\* loop is running no cutoff has been observed; while distance remains the
\* next control tick is taken, and with no distance left none is.
C2_SegmentEndsAtTargetOrCutoff ==
    /\ pc = "repEnd" => (distanceToGo = 0 \/ elapsed > 2 * durationMs)
    /\ pc = "moving" => elapsed <= 2 * durationMs
    /\ (pc = "moving" /\ distanceToGo # 0) => ENABLED Tick
    /\ (pc = "moving" /\ distanceToGo = 0) => ~ENABLED Tick

\* a segment cut off with distance remaining, after at least one tick
C2_Witness ==
    /\ pc = "repEnd" /\ hist.ticked
    /\ distanceToGo # 0 /\ elapsed = 2 * durationMs + 1

-----------------------------------------------------------------------------
(* C3 *)

\* C3: the running total, and the total steps the report shows, equal the
\* sum over the repetitions ended so far of |position at the end - position
\* at the start| of the repetition.
C3_TotalIsDistanceTravelled ==
    /\ InLoop => totalStepsMoved = hist.traveled
    /\ ReportSent => response.report[1].stepsMoved = hist.traveled

\* three repetitions, two run to their target and one cut off part of the
\* way: the total lies strictly between two and three planned moves
C3_Witness ==
    /\ ReportSent /\ repetitions = 3 /\ hist.aborted = 1
    /\ response.report[1].stepsMoved > 2 * Abs(steps)
    /\ response.report[1].stepsMoved < 3 * Abs(steps)

-----------------------------------------------------------------------------
(* C4 *)

\* C4: in a request that produces motion the enable line is written LOW
\* once, before the first move command and control tick; it stays LOW with
\* no further write through every repetition and delay; and it is written
\* HIGH once, after the last repetition has ended.
C4_EnableOncePerRequest ==
    /\ InLoop => (enablePin = "LOW" /\ hist.enables = 1 /\ hist.disables = 0)
    /\ (hist.moves > 0 \/ hist.ticked) => hist.enables = 1
    /\ ReportSent =>
        /\ enablePin = "HIGH" /\ hist.enables = 1 /\ hist.disables = 1
        /\ hist.moves = repetitions

\* three repetitions with delays between them, the last one cut off
C4_Witness ==
    /\ ReportSent /\ repetitions = 3 /\ Len(hist.delays) = 2
    /\ distanceToGo # 0 /\ hist.aborted >= 1
    /\ enablePin = "HIGH" /\ hist.enables = 1 /\ hist.disables = 1

-----------------------------------------------------------------------------
(* C5 *)

\* C5: handling a request that lacks angle, time or direction sends the 400
\* "Missing parameters." response and changes neither the enable line, the
\* motor position and target, the speed and acceleration settings nor the
\* report buffer; no move command or control tick is issued.
C5_MissingParametersRejected ==
    [][(pc = "idle" /\ pc' # "idle" /\ ~AllRequiredPresent(args')) =>
          /\ pc' = "sent"
          /\ response' = [code |-> 400, text |-> "Missing parameters.",
                          report |-> <<>>]
          /\ enablePin = "HIGH"
          /\ UNCHANGED <<enablePin, currentPos, targetPos, maxSpeed,
                         acceleration, lastStatus>>
          /\ hist'.enables = 0 /\ hist'.moves = 0 /\ ~hist'.ticked]_vars

\* a request without direction, rejected after an earlier request left a
\* report and a position other than zero
C5_Witness ==
    /\ pc = "sent" /\ response.code = 400
    /\ args.angle.has /\ args.time.has /\ ~args.direction.has
    /\ lastStatus # <<>> /\ currentPos # 0

-----------------------------------------------------------------------------
(* C6 *)

\* C6: a request of N repetitions with planned steps other than zero issues
\* one move command per repetition, N in all, however many segments were cut
\* off, and ends with the 200 response carrying its own report.
C6_EveryRepetitionStarted ==
    /\ (ProducesMotion /\ pc = "moving") => hist.moves = rep
    /\ ReportSent =>
        /\ hist.moves = repetitions
        /\ response.code = 200
        /\ Len(response.report) = 1
        /\ response.report[1].repetitions = repetitions
        /\ response.report[1].stepsMoved = totalStepsMoved

\* three segments started although the first two were cut off (as was the
\* third)
C6_Witness ==
    /\ ReportSent /\ repetitions = 3 /\ hist.moves = 3
    /\ hist.aborted = 3 /\ response.code = 200

-----------------------------------------------------------------------------
(* C7 *)

\* C7: the k-th delay() of a request comes after repetition k, with k < N,
\* and lasts the requested delay; repetition k+1 starts only after it when
\* the delay is positive; a finished request of N repetitions has delayed
\* N-1 times when the delay is positive and never otherwise.
C7_DelayBetweenRepetitionsOnly ==
    /\ \A i \in DOMAIN hist.delays :
          /\ hist.delays[i].after = i
          /\ i < repetitions
          /\ hist.delays[i].ms = repDelayMs /\ repDelayMs > 0
    /\ (pc = "moving" /\ repDelayMs > 0) => Len(hist.delays) = rep - 1
    /\ ReportSent =>
          Len(hist.delays) = IF repDelayMs > 0 THEN repetitions - 1 ELSE 0

\* three repetitions: delays after the first and the second only
C7_Witness ==
    /\ ReportSent /\ repetitions = 3 /\ repDelayMs > 0
    /\ Len(hist.delays) = 2
    /\ hist.delays[1].after = 1 /\ hist.delays[2].after = 2

-----------------------------------------------------------------------------
(* C8 *)

\* C8: an accepted request starts from position 0 whatever position it
\* found: until its first move command the position is 0, and the target of
\* the first repetition is the signed planned step delta.
C8_PositionResetPerRequest ==
    /\ (pc # "idle" /\ AllRequiredPresent(args) /\ hist.moves = 0) => currentPos = 0
    /\ (pc = "moving" /\ rep = 1) =>
          /\ targetSteps = steps /\ targetPos = steps
          /\ steps = (IF args.direction.text = "reverse" THEN -1 ELSE 1)
                        * PlannedSteps(args.angle.val)

\* a reverse request that found the motor at a positive position
C8_Witness ==
    /\ pc = "moving" /\ rep = 1
    /\ hist.posAtAccept > 0 /\ targetSteps < 0

-----------------------------------------------------------------------------
(* C9 *)

\* C9: a request is taken from the network stack only while the device is
\* idle; from then until its handler returns no other request is taken, the
\* arguments being served stay the same, and the enable line and the motor
\* position change only while a request is being served.
C9_OneRequestAtATime ==
    [][/\ pending' < pending => (pc = "idle" /\ pc' # "idle" /\ pending' = pending - 1)
       /\ pc # "idle" => (pending' >= pending /\ (args' = args \/ pc' = "idle"))
       /\ (pc = "idle" /\ pc' = "idle") =>
             UNCHANGED <<args, enablePin, currentPos, targetPos>>]_vars

\* a second request is waiting while the motor of the first is moving
C9_Witness == pc = "moving" /\ hist.ticked /\ pending > 0

-----------------------------------------------------------------------------
(* C10 *)

\* C10: for a request that produces motion, the speed, acceleration and
\* deceleration used are min(requested, maximum) in RPM terms, the stepper is
\* given that speed and that acceleration, the warnings name exactly the
\* quantities whose request was strictly above the maximum, in the order
\* speed, acceleration, deceleration, and the report carries them.
C10_ClampAndWarn ==
    ProducesMotion =>
        LET reqRpm == stepsPerSecToRpm(RequiredSpeed(steps, durationMs))
            reqAcc == Parsed(args).accelRpm
            reqDec == Parsed(args).decelRpm
            maxS == RInt(MAX_SPEED_RPM)
            maxA == RInt(MAX_ACCELERATION_RPM_S)
            Over(q) == \/ q = "speed" /\ RGt(reqRpm, maxS)
                       \/ q = "acceleration" /\ RGt(reqAcc, maxA)
                       \/ q = "deceleration" /\ RGt(reqDec, maxA)
        IN  /\ requiredSpeedRpm = RMin(reqRpm, maxS)
            /\ maxSpeed = rpmToStepsPerSec(RMin(reqRpm, maxS))
            /\ RGt(reqRpm, maxS) => maxSpeed = RInt(stepsPerRev * gearRatio)
            /\ accelRpm = RMin(reqAcc, maxA)
            /\ acceleration = rpmToStepsPerSec(RMin(reqAcc, maxA))
            /\ decelRpm = RMin(reqDec, maxA)
            /\ [i \in DOMAIN warnings |-> warnings[i].quantity]
                  = SelectSeq(<<"speed", "acceleration", "deceleration">>, Over)
            /\ ReportSent => response.report[1].warnings = warnings

\* speed and deceleration clamped, acceleration requested exactly at the limit
C10_Witness ==
    /\ ReportSent
    /\ Parsed(args).accelRpm = RInt(MAX_ACCELERATION_RPM_S)
    /\ Len(warnings) = 2
    /\ warnings[1].quantity = "speed" /\ warnings[2].quantity = "deceleration"
    /\ maxSpeed = RInt(stepsPerRev * gearRatio)

-----------------------------------------------------------------------------
(* C11 *)

\* the handler has planned the steps of a request carrying all three arguments
Planned == pc # "idle" /\ AllRequiredPresent(args)

\* angle * stepsPerRev * gearRatio, the numerator of the planned step count.
\* The firmware divides it by 360 in single precision; the quotient is a
\* multiple of 1/9, which single precision keeps on the right side of every
\* integer for angles below 58982.
AngleTimesStepsPerTurn == angle * stepsPerRev * gearRatio

\* C11 as stated: the signed step count of one repetition is
\* angle * stepsPerRev * gearRatio / 360 rounded to the nearest integer,
\* negated for the reverse direction.
C11_StepsRoundedToNearest ==
    Planned =>
        /\ 2 * Abs(AngleTimesStepsPerTurn - 360 * Abs(steps)) <= 360
        /\ (reverse => steps <= 0) /\ (~reverse => steps >= 0)

\* C11 amended: the signed step count of one repetition is
\* angle * stepsPerRev * gearRatio / 360 with its fraction dropped (the
\* largest integer not above the quotient), negated for the reverse direction.
C11_StepsTruncated ==
    Planned =>
        /\ 360 * Abs(steps) <= AngleTimesStepsPerTurn
        /\ AngleTimesStepsPerTurn < 360 * (Abs(steps) + 1)
        /\ (reverse => steps <= 0) /\ (~reverse => steps >= 0)

\* a reverse request whose quotient has a fraction above one half: 5 degrees
\* are 177.78 steps and 177 are planned
C11_Witness ==
    /\ Planned /\ pc = "rep" /\ reverse
    /\ angle = 5 /\ steps = -177

-----------------------------------------------------------------------------
(* C12 *)

\* the request being handled is past the safety clamp of lines 49-65
Clamped == Planned /\ steps # 0

\* C12: the safety clamp applied to the speed, acceleration and deceleration
\* that it has produced returns the same three values (and the same speed in
\* rpm) and no warning.
C12_ClampIdempotent ==
    Clamped =>
        SafetyClamp(requiredSpeed, accelRpm, decelRpm) =
            [requiredSpeed |-> requiredSpeed, requiredSpeedRpm |-> requiredSpeedRpm,
             accelRpm |-> accelRpm, decelRpm |-> decelRpm, warnings |-> <<>>]

\* a request whose speed, acceleration and deceleration were all three reduced
C12_Witness ==
    /\ Clamped /\ Len(warnings) = 3
    /\ requiredSpeedRpm = RInt(MAX_SPEED_RPM)
    /\ accelRpm = RInt(MAX_ACCELERATION_RPM_S) /\ decelRpm = RInt(MAX_ACCELERATION_RPM_S)

-----------------------------------------------------------------------------
(* C13 *)

\* C13: a request that moves runs as many repetitions as its repetitions
\* argument says, 1 if the argument is missing or below 1, and pauses for its
\* repDelay argument, 0 if that is missing or negative; it has called moveTo()
\* at least once when its response leaves, and exactly once, without any
\* delay() call, when the repetitions argument is missing.
C13_RepetitionDefaults ==
    ProducesMotion =>
        /\ repetitions = IF args.repetitions.has /\ args.repetitions.val >= 1
                            THEN args.repetitions.val ELSE 1
        /\ repDelayMs = IF args.repDelay.has /\ args.repDelay.val >= 0
                           THEN args.repDelay.val ELSE 0
        /\ (pc = "sent" => hist.moves >= 1)
        /\ (pc = "sent" /\ ~args.repetitions.has =>
                hist.moves = 1 /\ hist.delays = <<>>)

\* the response of a request without repetitions but with a delay of 1 ms
C13_Witness ==
    /\ ReportSent /\ ~args.repetitions.has
    /\ args.repDelay.has /\ args.repDelay.val = 1 /\ repDelayMs = 1
    /\ hist.moves = 1 /\ hist.delays = <<>>

-----------------------------------------------------------------------------
(* C14 *)

\* what the claim makes of a rate argument: the default when the argument is
\* missing, empty or not above zero, the argument's value otherwise
RateAsked(arg, default) ==
    IF arg.has /\ arg.len > 0 /\ arg.val > 0 THEN RInt(arg.val) ELSE RInt(default)

\* the smaller of a rate and the limit the clamp holds it to
Limited(x) == IF x[1] > MAX_ACCELERATION_RPM_S * x[2] THEN RInt(MAX_ACCELERATION_RPM_S) ELSE x

\* C14: the acceleration and the deceleration of a request are the configured
\* defaults when the argument is missing, empty or not above zero, and the
\* argument's value otherwise: rotateStepper receives these values (seen as
\* they are in a request that plans zero steps, which returns before the
\* clamp) and works with them limited to the maximum once past the clamp.
C14_RateDefaults ==
    Planned =>
        LET a == RateAsked(args.acceleration, DEFAULT_ACCELERATION_RPM_S)
            d == RateAsked(args.deceleration, DEFAULT_DECELERATION_RPM_S)
        IN  IF steps = 0
            THEN accelRpm = a /\ decelRpm = d
            ELSE accelRpm = Limited(a) /\ decelRpm = Limited(d)

\* acceleration=0 and an empty deceleration, both replaced by the default 10
C14_Witness ==
    /\ Clamped
    /\ args.acceleration.has /\ args.acceleration.len > 0 /\ args.acceleration.val = 0
    /\ args.deceleration.has /\ args.deceleration.len = 0
    /\ accelRpm = RInt(10) /\ decelRpm = RInt(10)

-----------------------------------------------------------------------------
(* C15 *)

\* the report that the response in flight carries
Sent == response.report[1]

\* t tenths is num/den printed with one decimal: the tenth nearest to it
NearestTenth(t, num, den) == 2 * Abs(t * den - 10 * num) <= den

\* C15: the report of a request that moved gives, with one decimal, as
\* expected total angle the angle times the repetitions of the request, and as
\* actual total angle the step total it prints times 360 over
\* stepsPerRev * gearRatio, the step total being the distance the motor covered.
C15_ExpectedAndActualAngle ==
    ReportSent =>
        /\ Sent.expectedTotalAngle = 10 * angle * repetitions
        /\ Sent.stepsMoved = hist.traveled
        /\ NearestTenth(Sent.actualAngle, Sent.stepsMoved * 360, stepsPerRev * gearRatio)

\* three repetitions of 1 degree that covered 70 of the 105 steps planned: 3.0
\* degrees expected, 2.0 degrees (1.97) actual
C15_Witness ==
    /\ ReportSent /\ angle = 1 /\ repetitions = 3
    /\ Sent.expectedTotalAngle = 30
    /\ Sent.stepsMoved = 70 /\ Sent.actualAngle = 20

-----------------------------------------------------------------------------
(* C16 *)

\* the speed and the rates, in RPM and RPM/s, that the request works with
RpmValues == {requiredSpeedRpm, accelRpm, decelRpm}

\* C16: every speed or rate rpm > 0 of a request converts to
\* rpm * stepsPerRev * gearRatio / 60 steps per second, and converting that
\* back gives rpm again.
C16_ConversionRoundTrip ==
    Clamped =>
        \A rpm \in RpmValues :
            LET sps == rpmToStepsPerSec(rpm)
            IN  /\ rpm[1] > 0
                /\ sps[1] * 60 * rpm[2] = rpm[1] * stepsPerRev * gearRatio * sps[2]
                /\ stepsPerSecToRpm(sps) = rpm

\* 5 degrees in one second: 177 steps per second are 0.8296875 RPM, a value
\* that is not a whole number, next to the default rates
C16_Witness ==
    /\ Clamped /\ warnings = <<>>
    /\ requiredSpeed = RInt(177) /\ requiredSpeedRpm = Rat(177 * 60, stepsPerRev * gearRatio)
    /\ acceleration = rpmToStepsPerSec(accelRpm)

-----------------------------------------------------------------------------
(* C17 *)

\* the driver is disabled and the response of a request that moved is sent
Responded == ReportSent /\ enablePin = "HIGH" /\ response.code = 200

\* C17: as long as millis() advances while run() is being called, every
\* segment's while loop is left, with the target reached or by the cutoff, and
\* every request that entered the repetition loop gets to the point where the
\* driver is disabled and the response is sent.
C17_EveryRequestTerminates ==
    /\ (pc = "moving") ~> (pc = "repEnd" /\ (distanceToGo = 0 \/ CutoffFires(elapsed, durationMs)))
    /\ InLoop ~> Responded

\* the response of two repetitions with a pause between them, the first cut
\* off and the second reaching its target
C17_Witness ==
    /\ Responded /\ repetitions = 2 /\ hist.moves = 2 /\ Len(hist.delays) = 1
    /\ hist.aborted = 1 /\ distanceToGo = 0

-----------------------------------------------------------------------------
(* C18 *)

\* the distance covered so far, signed by the direction of the request
SignedTravel == IF reverse THEN -hist.traveled ELSE hist.traveled

\* C18: while a repetition runs, its target is the position the motor had
\* when the repetition started plus the signed steps of the request; between
\* repetitions and when the response leaves, the motor stands at the signed
\* sum of the distances covered in the repetitions so far, which after a
\* segment that was cut off is less than repetitions times the planned steps.
C18_TargetRelativeToPosition ==
    ProducesMotion =>
        /\ (pc \in {"moving", "repEnd"} =>
                targetSteps = hist.repStartPos + steps /\ targetPos = targetSteps)
        /\ (pc \in {"rep", "delay", "sent"} => currentPos = SignedTravel)
        /\ (pc = "sent" /\ hist.aborted > 0 =>
                Abs(currentPos) < repetitions * Abs(steps))

\* the second repetition under way after a first one that was cut off partway
C18_Witness ==
    /\ ProducesMotion /\ pc = "moving" /\ rep = 2 /\ hist.aborted = 1
    /\ hist.repStartPos # 0 /\ Abs(hist.repStartPos) < Abs(steps)
    /\ targetSteps = hist.repStartPos + steps

-----------------------------------------------------------------------------
(* C19 *)

\* C19: the enable pin is HIGH (driver disabled) whenever no handler runs,
\* from setup() on and after any sequence of requests, and it is LOW only
\* inside the repetition loop of a request whose planned steps are not zero.
C19_DisabledWheneverIdle ==
    /\ (pc = "idle" => enablePin = "HIGH")
    /\ (enablePin = "LOW" => InLoop /\ ProducesMotion)

\* the device idle again after a request that moved the motor followed by a
\* zero-angle request: the report still tells of steps, the position is 0
C19_Witness ==
    /\ pc = "idle" /\ enablePin = "HIGH"
    /\ lastStatus # <<>> /\ lastStatus[1].stepsMoved > 0 /\ currentPos = 0

-----------------------------------------------------------------------------
(* C20 *)

\* C20: the handler's step for a request that carries all three arguments and
\* plans zero steps leaves lastStatus as it is, answers 200 with lastStatus as
\* body (the report of the last request that moved, or nothing), and changes
\* nothing of the device but the motor position, which it sets to 0: the
\* enable pin, the speed and the acceleration of the stepper stay.
C20_NoOpLeavesReportUntouched ==
    [][(pc = "idle" /\ pc' # "idle" /\ AllRequiredPresent(args') /\ steps' = 0) =>
          /\ lastStatus' = lastStatus
          /\ response' = [code |-> 200, text |-> "", report |-> lastStatus]
          /\ currentPos' = 0 /\ targetPos' = 0
          /\ UNCHANGED <<enablePin, maxSpeed, acceleration>>
          /\ pc' = "sent"
          /\ hist'.enables = 0 /\ hist'.moves = 0]_vars

\* a zero-angle request answered with the report of an earlier request that
\* moved the motor, the position it found replaced by 0
C20_Witness ==
    /\ pc = "sent" /\ AllRequiredPresent(args) /\ steps = 0
    /\ lastStatus # <<>> /\ lastStatus[1].stepsMoved > 0
    /\ response.report = lastStatus
    /\ hist.posAtAccept # 0 /\ currentPos = 0

-----------------------------------------------------------------------------
(* C21 *)

\* what the handler gives the driver and its own loop for a request: the
\* arguments of setMaxSpeed() and setAcceleration(), the signed steps of
\* every moveTo(), the repetitions, the pause and the duration behind the cutoff
DriverPlan(req) ==
    LET a == Parsed(req)
        s == SignedSteps(PlannedSteps(a.angle), a.reverse)
        c == SafetyClamp(RequiredSpeed(s, a.time), a.accelRpm, a.decelRpm)
    IN  [maxSpeed |-> c.requiredSpeed,
         acceleration |-> DriverAcceleration(c.accelRpm, c.decelRpm),
         steps |-> s, repetitions |-> a.repetitions,
         repDelayMs |-> a.repDelay, durationMs |-> a.time]

\* the same request with another deceleration argument
WithDeceleration(req, d) == [req EXCEPT !.deceleration = d]

\* C21: the deceleration of a request does not reach the motor.  Whatever
\* deceleration argument the request in hand had carried instead, the handler
\* would have given the driver the same maximum speed and acceleration and
\* its loop the same steps, repetitions, pause and duration; and every step
\* of the loop gives its driver commands (the target of moveTo(), the run()
\* calls, the end of a segment, the pause) as these values, the position and
\* the clock make them, the driver's speed and acceleration staying as set.
C21_DecelerationNeverReachesMotor ==
    [][/\ ProducesMotion' =>
            \A d \in RateArgs :
                DriverPlan(WithDeceleration(args', d)) =
                    [maxSpeed |-> maxSpeed', acceleration |-> acceleration',
                     steps |-> steps', repetitions |-> repetitions',
                     repDelayMs |-> repDelayMs', durationMs |-> durationMs']
       /\ InLoop =>
            /\ maxSpeed' = maxSpeed /\ acceleration' = acceleration
       /\ InLoop /\ pending' # pending => UNCHANGED <<pc, currentPos, targetPos>>
       /\ InLoop /\ pending' = pending =>
            /\ pc = "rep" =>
                    /\ UNCHANGED currentPos
                    /\ IF rep <= repetitions
                         THEN pc' = "moving" /\ targetPos' = currentPos + steps
                         ELSE pc' = "sent" /\ UNCHANGED targetPos
            /\ pc = "moving" =>
                    /\ UNCHANGED targetPos
                    /\ currentPos' \in {currentPos, StepTowards(currentPos, targetPos, TRUE)}
                    /\ pc' = (IF distanceToGo = 0 \/ elapsed' > 2 * durationMs
                                THEN "repEnd" ELSE "moving")
            /\ pc = "repEnd" =>
                    /\ UNCHANGED <<currentPos, targetPos>>
                    /\ pc' = (IF rep < repetitions /\ repDelayMs > 0 THEN "delay" ELSE "rep")
            /\ pc = "delay" =>
                    /\ UNCHANGED <<currentPos, targetPos>> /\ pc' = "rep"]_vars

\* the report of a request that moved the motor with acceleration 10 and a
\* deceleration of 40 that was cut to 30 with a warning
C21_Witness ==
    /\ ReportSent /\ hist.traveled > 0
    /\ args.deceleration.has /\ args.deceleration.val = 40
    /\ decelRpm = RInt(MAX_ACCELERATION_RPM_S) /\ Sent.deceleration = 10 * MAX_ACCELERATION_RPM_S
    /\ accelRpm = RInt(DEFAULT_ACCELERATION_RPM_S)
    /\ acceleration = rpmToStepsPerSec(RInt(DEFAULT_ACCELERATION_RPM_S))
    /\ Len(warnings) = 2

-----------------------------------------------------------------------------
(* C22 *)

\* C22: when every repetition of a request reached its target, the motor
\* stands at repetitions times the signed steps when the response leaves, and
\* the step total, in the handler and in the report, is repetitions times the
\* magnitude of the steps.
C22_CompleteRunMatchesPlan ==
    ReportSent /\ hist.aborted = 0 =>
        /\ currentPos = repetitions * steps
        /\ totalStepsMoved = repetitions * Abs(steps)
        /\ Sent.stepsMoved = repetitions * Abs(steps)

\* three repetitions in reverse, all completed: position -105, 105 steps reported
C22_Witness ==
    /\ ReportSent /\ hist.aborted = 0 /\ hist.moves = 3
    /\ repetitions = 3 /\ steps = -35
    /\ currentPos = -105 /\ Sent.stepsMoved = 105

-----------------------------------------------------------------------------
(* C23 *)

\* the repetitions of the request in hand that have ended: the moveTo() calls
\* made, less the one whose segment is still running or not yet accounted
RepsEnded == IF pc \in {"moving", "repEnd"} THEN hist.moves - 1 ELSE hist.moves

\* C23: throughout a request that moves, the running total of steps is never
\* negative, never becomes smaller, and is at most the number of repetitions
\* ended so far times the magnitude of the planned steps; the report's step
\* total is at most repetitions times that magnitude, and its actual total
\* angle is at most its expected total angle.
C23_RunningTotalBounded ==
    [][ProducesMotion' =>
          /\ totalStepsMoved' >= 0
          /\ totalStepsMoved' <= RepsEnded' * Abs(steps')
          /\ (ProducesMotion => totalStepsMoved' >= totalStepsMoved)
          /\ (ReportSent' =>
                /\ RepsEnded' = repetitions'
                /\ Sent'.stepsMoved <= repetitions' * Abs(steps')
                /\ Sent'.actualAngle <= Sent'.expectedTotalAngle)]_vars

\* at the loop test before the third repetition, one of the first two having
\* been cut off: a total above zero and below twice the planned steps
C23_Witness ==
    /\ ProducesMotion /\ pc = "rep" /\ rep = 3 /\ hist.aborted = 1
    /\ RepsEnded = 2
    /\ totalStepsMoved > Abs(steps) /\ totalStepsMoved < 2 * Abs(steps)
====
